---- MODULE Spec2Model ----
(***************************************************************************)
(* Model of the two derivation routes of src/routes/api.js:                *)
(*   GET /bosses/:steamid/:appid        (boss-progress scan)               *)
(*   GET /achievements/:steamid/:appid  (achievement enrichment)           *)
(* A request handler is an async function: the code between two awaits     *)
(* runs to completion on the single JavaScript thread, so every action     *)
(* below is one such run-to-completion segment.  Sequences are 1-based     *)
(* here and 0-based in the source.                                         *)
(***************************************************************************)
EXTENDS Integers, Sequences, FiniteSets, TLC

VARIABLES
  bossesJson,               \* schemas/bosses/*.json, loaded by require (static)
  schemaJson,               \* schemas/*_schema.json, loaded by require (static)
  legacySchemaFile,         \* does schemas/darksoulsremasteredschema.json exist
  route,                    \* route[r]: which handler serves request r
  appid,                    \* req.params.appid of request r
  steamPlayerAchievements,  \* what GetPlayerAchievements holds for request r
  steamPercentages,         \* what GetGlobalAchievementPercentagesForApp holds
  pc,                       \* position of handler r
  bosses,                   \* local `bosses` of the bosses handler
  achievements,             \* local `achievements` of the bosses handler
  playerAchievements,       \* local `playerAchievements` of the achievements handler
  schema,                   \* local `schema` (its achievements array)
  percentages,              \* local `percentages`
  upstream,                 \* statuses of the fetches that have settled, in order
  fetches,                  \* number of fetch() calls issued by handler r
  enriched,                 \* handler r has entered the forEach enrichment
  sent,                     \* responses written through res by handler r
  nextErr,                  \* error handed to next(err) by handler r, or "none"
  result,                   \* undeclared, hence global, accumulator `result`
  possibleAchievements      \* undeclared, hence global, `possibleAchievements`

vars == <<bossesJson, schemaJson, legacySchemaFile, route, appid,
          steamPlayerAchievements, steamPercentages, pc, bosses, achievements,
          playerAchievements, schema, percentages, upstream, fetches, enriched,
          sent, nextErr, result, possibleAchievements>>

(***************************************************************************)
(* Bounds                                                                  *)
(***************************************************************************)
MaxBosses == 3
NumCandidates == 2
MaxSchema == 2
NumRequests == 2

Reqs == 1..NumRequests

(***************************************************************************)
(* JavaScript values whose type matters to a caller                        *)
(***************************************************************************)
JsString(s) == [type |-> "string", val |-> s]
JsObject(o) == [type |-> "object", val |-> o]

Truthy(n) == n # 0

\* response.ok of the fetch API
Ok(status) == status \in 200..299

Min(S) == CHOOSE x \in S : \A y \in S : x <= y

(***************************************************************************)
(* Catalog data.  An achievement identifier is a string, modelled as the   *)
(* tuple of its characters; a milestone name is a string, modelled as the  *)
(* pair <<game, position>>.  A milestone's apiname is either one string or  *)
(* an array of strings: `kind` tells which, `ids` holds the string (alone) *)
(* or the array's elements.                                                *)
(***************************************************************************)
AppIds == {"570940", "1245620", "374320"}

AchievementId(i) == IF i = 3 THEN <<1, 2>> ELSE <<i>>
CandidateId(j) == <<10 + j>>

SingleMilestone(g, i) ==
  [apiname |-> [kind |-> "string", ids |-> <<AchievementId(i)>>], name |-> <<g, i>>]

BranchingMilestone(g, i) ==
  [apiname |-> [kind |-> "array",
                ids |-> [j \in 1..NumCandidates |-> CandidateId(j)]],
   name |-> <<g, i>>]

\* a boss list of n milestones whose p-th is the branching one (p = 0: none)
BossList(g, n, p) ==
  [i \in 1..n |-> IF i = p THEN BranchingMilestone(g, i) ELSE SingleMilestone(g, i)]

BossCatalogs ==
  UNION {{[darksoulsremastered |-> BossList("DSR", n, 0),
           eldenring |-> BossList("ER", m, p)] : p \in 1..m} :
         n \in 1..MaxBosses, m \in 1..MaxBosses}

(***************************************************************************)
(* GET /bosses/:steamid/:appid                                             *)
(***************************************************************************)
\* switch (req.params.appid) of the bosses handler
SelectBosses(id) ==
  CASE id = "570940" -> bossesJson.darksoulsremastered
    [] id = "1245620" -> bossesJson.eldenring
    [] OTHER -> bossesJson.darksoulsremastered

\* String.prototype.includes
IsSubstring(needle, hay) ==
  \E k \in 0..(Len(hay) - Len(needle)) : SubSeq(hay, k + 1, k + Len(needle)) = needle

\* boss.apiname.includes(x): Array.prototype.includes or String.prototype.includes
Includes(apiname, x) ==
  IF apiname.kind = "array"
    THEN \E j \in 1..Len(apiname.ids) : apiname.ids[j] = x
    ELSE IsSubstring(x, apiname.ids[1])

\* achievements.find(a => a.apiname === boss.apiname): index of the first
\* strictly equal entry, 0 for undefined (an array never === a string)
FindAchievement(achs, apiname) ==
  LET hits == {i \in 1..Len(achs) :
                 apiname.kind = "string" /\ achs[i].apiname = apiname.ids[1]}
  IN IF hits = {} THEN 0 ELSE Min(hits)

\* achievements.filter(a => boss.apiname.includes(a.apiname))
FilterPossible(achs, apiname) ==
  SelectSeq(achs, LAMBDA a : Includes(apiname, a.apiname))

\* faulty variant: returns only when every candidate is achieved
AllPossibleAchieved(possible) ==
  possible # <<>> /\ \A i \in 1..Len(possible) : Truthy(possible[i].achieved)

\* for (const achievement of possibleAchievements) if (achievement.achieved) return
AnyPossibleAchieved(possible) ==
  \E i \in 1..Len(possible) : Truthy(possible[i].achieved)

Json(status, body) == [status |-> status, body |-> body]

Thrown(possible) == [threw |-> TRUE, possible |-> possible]
Replied(body, possible) == [threw |-> FALSE, body |-> body, possible |-> possible]

\* the for loop over bosses.entries() and the return after it; `possible` is
\* the value the global possibleAchievements holds on the way
RECURSIVE ScanBosses(_, _, _, _)
ScanBosses(bs, achs, index, possible) ==
  IF index > Len(bs)
    THEN IF Len(bs) = 0
           THEN Replied([response |-> [complete |-> TRUE]], possible)
           ELSE Replied([response |-> [complete |-> TRUE,
                                       recent_boss |-> JsObject(bs[Len(bs)])]],
                        possible)
    ELSE
      LET boss == bs[index]
          currentBoss == FindAchievement(achs, boss.apiname)
          poss == IF currentBoss = 0 THEN FilterPossible(achs, boss.apiname)
                                     ELSE possible
      IN IF currentBoss = 0
           THEN IF AnyPossibleAchieved(poss)
                  THEN Replied([data |-> [complete |-> TRUE,
                                          recent_boss |-> JsString(boss.name)]],
                               poss)
                  ELSE Thrown(poss)          \* undefined.achieved
           ELSE IF ~Truthy(achs[currentBoss].achieved)
                  THEN IF index = 1
                         THEN Thrown(poss)   \* bosses[-1].name
                         ELSE Replied([data |-> [complete |-> FALSE,
                                                 next_boss |-> JsString(boss.name),
                                                 recent_boss |-> JsString(bs[index - 1].name)]],
                                      poss)
                  ELSE ScanBosses(bs, achs, index + 1, poss)

\* entry up to the first await: the switch, then fetch(GetPlayerAchievements)
Bosses_Start(r) ==
  /\ pc[r] = "start" /\ route[r] = "bosses"
  /\ bosses' = [bosses EXCEPT ![r] = SelectBosses(appid[r])]
  /\ fetches' = [fetches EXCEPT ![r] = @ + 1]
  /\ pc' = [pc EXCEPT ![r] = "fetch"]
  /\ UNCHANGED <<bossesJson, schemaJson, legacySchemaFile, route, appid,
                 steamPlayerAchievements, steamPercentages, achievements,
                 playerAchievements, schema, percentages, upstream, enriched,
                 sent, nextErr, result, possibleAchievements>>

\* await fetch(...) settles: rejection goes to catch, a non-ok status is
\* relayed, an ok status starts response.json()
Bosses_FetchSettled(r) ==
  /\ pc[r] = "fetch" /\ route[r] = "bosses"
  /\ \/ /\ nextErr' = [nextErr EXCEPT ![r] = "FetchError"]
        /\ pc' = [pc EXCEPT ![r] = "done"]
        /\ UNCHANGED <<upstream, sent>>
     \/ \E status \in {200, 403} :
          /\ upstream' = [upstream EXCEPT ![r] = Append(@, status)]
          /\ IF Ok(status)
               THEN /\ pc' = [pc EXCEPT ![r] = "json"]
                    /\ UNCHANGED sent
               ELSE /\ sent' = [sent EXCEPT ![r] =
                                  Append(@, Json(status, [error |-> TRUE, message |-> status]))]
                    /\ pc' = [pc EXCEPT ![r] = "done"]
          /\ UNCHANGED nextErr
  /\ UNCHANGED <<bossesJson, schemaJson, legacySchemaFile, route, appid,
                 steamPlayerAchievements, steamPercentages, bosses, achievements,
                 playerAchievements, schema, percentages, fetches, enriched,
                 result, possibleAchievements>>

\* await response.json() settles, then the scan runs and answers
Bosses_JsonSettled(r) ==
  /\ pc[r] = "json" /\ route[r] = "bosses"
  /\ LET achs == steamPlayerAchievements[r]
         scan == ScanBosses(bosses[r], achs, 1, possibleAchievements)
     IN /\ achievements' = [achievements EXCEPT ![r] = achs]
        /\ possibleAchievements' = scan.possible
        /\ IF scan.threw
             THEN /\ nextErr' = [nextErr EXCEPT ![r] = "TypeError"]
                  /\ UNCHANGED sent
             ELSE /\ sent' = [sent EXCEPT ![r] = Append(@, Json(200, scan.body))]
                  /\ UNCHANGED nextErr
  /\ pc' = [pc EXCEPT ![r] = "done"]
  /\ UNCHANGED <<bossesJson, schemaJson, legacySchemaFile, route, appid,
                 steamPlayerAchievements, steamPercentages, bosses,
                 playerAchievements, schema, percentages, upstream, fetches,
                 enriched, result>>

(***************************************************************************)
(* GET /achievements/:steamid/:appid                                       *)
(***************************************************************************)
\* one entry of schema.game.availableGameStats.achievements; the texts are
\* strings, modelled as <<game, field, position>>
SchemaAchievement(g, i) ==
  [name |-> AchievementId(i),
   displayName |-> <<g, "displayName", i>>,
   description |-> <<g, "description", i>>,
   icon |-> <<g, "icon", i>>]

SchemaList(g, n) == [i \in 1..n |-> SchemaAchievement(g, i)]

SchemaCatalogs ==
  {[darksoulsremastered_schema |-> SchemaList("DSR", n),
    eldenring_schema |-> SchemaList("ER", MaxSchema)] : n \in 1..MaxSchema}

\* switch (req.params.appid) of the achievements handler; the default case
\* requires a file of another name, which throws when the file is missing
SelectSchema(id) ==
  CASE id = "570940" -> [threw |-> FALSE, achievements |-> schemaJson.darksoulsremastered_schema]
    [] id = "1245620" -> [threw |-> FALSE, achievements |-> schemaJson.eldenring_schema]
    [] OTHER -> IF legacySchemaFile
                  THEN [threw |-> FALSE, achievements |-> schemaJson.darksoulsremastered_schema]
                  ELSE [threw |-> TRUE, achievements |-> <<>>]

\* new Date(ms).toDateString(): the calendar day (UTC) without the time of
\* day, as the day number since the epoch and its weekday (0 = Sunday)
ToDateString(ms) ==
  LET day == ms \div 86400000
  IN [weekday |-> (day + 4) % 7, day |-> day]

\* faulty variant: a missing rarity entry is filled with zero
FindPercentageOrZero(pcts, name) ==
  LET hits == {j \in 1..Len(pcts) : pcts[j].name = name}
  IN IF hits = {} THEN [threw |-> FALSE, percent |-> 0]
                  ELSE [threw |-> FALSE, percent |-> pcts[Min(hits)].percent]

\* percentages.find(p => p.name === achievement.name).percent
FindPercentage(pcts, name) ==
  LET hits == {j \in 1..Len(pcts) : pcts[j].name = name}
  IN IF hits = {} THEN [threw |-> TRUE, percent |-> 0]
                  ELSE [threw |-> FALSE, percent |-> pcts[Min(hits)].percent]

ResultAchievement(achievement, playerAchievement, percentage) ==
  [name |-> achievement.displayName,
   description |-> achievement.description,
   unlocktime |-> ToDateString(playerAchievement.unlocktime * 1000),
   icon |-> achievement.icon,
   rarity |-> percentage]

\* faulty variant: the `achieved` test is left out
RECURSIVE ForEachUnfiltered(_, _, _, _, _)
ForEachUnfiltered(sch, pas, pcts, index, acc) ==
  IF index > Len(sch) THEN [threw |-> FALSE, result |-> acc]
  ELSE IF index > Len(pas) THEN [threw |-> TRUE, result |-> acc]
  ELSE LET p == FindPercentage(pcts, sch[index].name)
       IN IF p.threw THEN [threw |-> TRUE, result |-> acc]
          ELSE ForEachUnfiltered(sch, pas, pcts, index + 1,
                 Append(acc, ResultAchievement(sch[index], pas[index], p.percent)))

\* schema...achievements.forEach(function (achievement, index) {...}) over
\* the accumulator `result`; reading playerAchievements[index].achieved past
\* the end of the array throws
RECURSIVE ForEachAchievement(_, _, _, _, _)
ForEachAchievement(sch, pas, pcts, index, acc) ==
  IF index > Len(sch) THEN [threw |-> FALSE, result |-> acc]
  ELSE IF index > Len(pas) THEN [threw |-> TRUE, result |-> acc]
  ELSE IF Truthy(pas[index].achieved)
    THEN LET p == FindPercentage(pcts, sch[index].name)
         IN IF p.threw THEN [threw |-> TRUE, result |-> acc]
            ELSE ForEachAchievement(sch, pas, pcts, index + 1,
                   Append(acc, ResultAchievement(sch[index], pas[index], p.percent)))
    ELSE ForEachAchievement(sch, pas, pcts, index + 1, acc)

\* entry up to the first await: fetch(GetPlayerAchievements)
Achievements_Start(r) ==
  /\ pc[r] = "start" /\ route[r] = "achievements"
  /\ fetches' = [fetches EXCEPT ![r] = @ + 1]
  /\ pc' = [pc EXCEPT ![r] = "fetch"]
  /\ UNCHANGED <<bossesJson, schemaJson, legacySchemaFile, route, appid,
                 steamPlayerAchievements, steamPercentages, bosses, achievements,
                 playerAchievements, schema, percentages, upstream, enriched,
                 sent, nextErr, result, possibleAchievements>>

Achievements_FetchSettled(r) ==
  /\ pc[r] = "fetch" /\ route[r] = "achievements"
  /\ \/ /\ nextErr' = [nextErr EXCEPT ![r] = "FetchError"]
        /\ pc' = [pc EXCEPT ![r] = "done"]
        /\ UNCHANGED <<upstream, sent>>
     \/ \E status \in {200, 403} :
          /\ upstream' = [upstream EXCEPT ![r] = Append(@, status)]
          /\ IF Ok(status)
               THEN /\ pc' = [pc EXCEPT ![r] = "json"]
                    /\ UNCHANGED sent
               ELSE /\ sent' = [sent EXCEPT ![r] =
                                  Append(@, Json(status, [error |-> TRUE, message |-> status]))]
                    /\ pc' = [pc EXCEPT ![r] = "done"]
          /\ UNCHANGED nextErr
  /\ UNCHANGED <<bossesJson, schemaJson, legacySchemaFile, route, appid,
                 steamPlayerAchievements, steamPercentages, bosses, achievements,
                 playerAchievements, schema, percentages, fetches, enriched,
                 result, possibleAchievements>>

\* await response.json() settles; the schema switch; the second fetch
Achievements_JsonSettled(r) ==
  /\ pc[r] = "json" /\ route[r] = "achievements"
  /\ playerAchievements' = [playerAchievements EXCEPT ![r] = steamPlayerAchievements[r]]
  /\ LET sel == SelectSchema(appid[r])
     IN IF sel.threw
          THEN /\ nextErr' = [nextErr EXCEPT ![r] = "MODULE_NOT_FOUND"]
               /\ pc' = [pc EXCEPT ![r] = "done"]
               /\ UNCHANGED <<schema, fetches>>
          ELSE /\ schema' = [schema EXCEPT ![r] = sel.achievements]
               /\ fetches' = [fetches EXCEPT ![r] = @ + 1]
               /\ pc' = [pc EXCEPT ![r] = "percentagesFetch"]
               /\ UNCHANGED nextErr
  /\ UNCHANGED <<bossesJson, schemaJson, legacySchemaFile, route, appid,
                 steamPlayerAchievements, steamPercentages, bosses, achievements,
                 percentages, upstream, enriched, sent, result,
                 possibleAchievements>>

\* faulty variant: the non-ok branch answers but does not return
Achievements_PercentagesFetchSettled_NoReturn(r) ==
  /\ pc[r] = "percentagesFetch" /\ route[r] = "achievements"
  /\ \E status \in {200, 500} :
       /\ upstream' = [upstream EXCEPT ![r] = Append(@, status)]
       /\ IF Ok(status)
            THEN UNCHANGED sent
            ELSE sent' = [sent EXCEPT ![r] =
                            Append(@, Json(status, [error |-> TRUE, message |-> status]))]
       /\ pc' = [pc EXCEPT ![r] = "percentagesJson"]
       /\ UNCHANGED nextErr
  /\ UNCHANGED <<bossesJson, schemaJson, legacySchemaFile, route, appid,
                 steamPlayerAchievements, steamPercentages, bosses, achievements,
                 playerAchievements, schema, percentages, fetches, enriched,
                 result, possibleAchievements>>

\* await fetch(GetGlobalAchievementPercentagesForApp) settles
Achievements_PercentagesFetchSettled(r) ==
  /\ pc[r] = "percentagesFetch" /\ route[r] = "achievements"
  /\ \/ /\ nextErr' = [nextErr EXCEPT ![r] = "FetchError"]
        /\ pc' = [pc EXCEPT ![r] = "done"]
        /\ UNCHANGED <<upstream, sent>>
     \/ \E status \in {200, 500} :
          /\ upstream' = [upstream EXCEPT ![r] = Append(@, status)]
          /\ IF Ok(status)
               THEN /\ pc' = [pc EXCEPT ![r] = "percentagesJson"]
                    /\ UNCHANGED sent
               ELSE /\ sent' = [sent EXCEPT ![r] =
                                  Append(@, Json(status, [error |-> TRUE, message |-> status]))]
                    /\ pc' = [pc EXCEPT ![r] = "done"]
          /\ UNCHANGED nextErr
  /\ UNCHANGED <<bossesJson, schemaJson, legacySchemaFile, route, appid,
                 steamPlayerAchievements, steamPercentages, bosses, achievements,
                 playerAchievements, schema, percentages, fetches, enriched,
                 result, possibleAchievements>>

\* faulty variant: `result` is not reset before the forEach
Achievements_PercentagesJsonSettled_NoReset(r) ==
  /\ pc[r] = "percentagesJson" /\ route[r] = "achievements"
  /\ percentages' = [percentages EXCEPT ![r] = steamPercentages[r]]
  /\ enriched' = [enriched EXCEPT ![r] = TRUE]
  /\ LET each == ForEachAchievement(schema[r], playerAchievements[r],
                                    steamPercentages[r], 1, result)
     IN /\ result' = each.result
        /\ IF each.threw
             THEN /\ nextErr' = [nextErr EXCEPT ![r] = "TypeError"]
                  /\ UNCHANGED sent
             ELSE /\ sent' = [sent EXCEPT ![r] =
                                Append(@, Json(200, [data |-> [result |-> each.result]]))]
                  /\ UNCHANGED nextErr
  /\ pc' = [pc EXCEPT ![r] = "done"]
  /\ UNCHANGED <<bossesJson, schemaJson, legacySchemaFile, route, appid,
                 steamPlayerAchievements, steamPercentages, bosses, achievements,
                 playerAchievements, schema, upstream, fetches,
                 possibleAchievements>>

\* await percentagesResponse.json() settles; result = []; the forEach; the
\* answer.  No await separates the reset of `result` from res.json.
Achievements_PercentagesJsonSettled(r) ==
  /\ pc[r] = "percentagesJson" /\ route[r] = "achievements"
  /\ percentages' = [percentages EXCEPT ![r] = steamPercentages[r]]
  /\ enriched' = [enriched EXCEPT ![r] = TRUE]
  /\ LET each == ForEachAchievement(schema[r], playerAchievements[r],
                                    steamPercentages[r], 1, <<>>)
     IN /\ result' = each.result
        /\ IF each.threw
             THEN /\ nextErr' = [nextErr EXCEPT ![r] = "TypeError"]
                  /\ UNCHANGED sent
             ELSE /\ sent' = [sent EXCEPT ![r] =
                                Append(@, Json(200, [data |-> [result |-> each.result]]))]
                  /\ UNCHANGED nextErr
  /\ pc' = [pc EXCEPT ![r] = "done"]
  /\ UNCHANGED <<bossesJson, schemaJson, legacySchemaFile, route, appid,
                 steamPlayerAchievements, steamPercentages, bosses, achievements,
                 playerAchievements, schema, upstream, fetches,
                 possibleAchievements>>

(***************************************************************************)
(* What the Steam Web API may hold for a request                           *)
(***************************************************************************)
PlayerAchievement(id, achieved, unlocktime) ==
  [apiname |-> id, achieved |-> achieved, unlocktime |-> unlocktime]

\* every milestone identifier of the catalog, in the order Steam lists them
BossUniverse ==
  [i \in 1..(MaxBosses + NumCandidates) |->
     IF i <= MaxBosses THEN AchievementId(i) ELSE CandidateId(i - MaxBosses)]

\* each identifier is absent (-1), not achieved (0) or achieved (1)
BossPlayerAchievements ==
  {SelectSeq([i \in DOMAIN BossUniverse |->
                PlayerAchievement(BossUniverse[i], f[i], IF f[i] = 1 THEN 86400 ELSE 0)],
             LAMBDA a : a.achieved # -1) :
     f \in [DOMAIN BossUniverse -> {-1, 0, 1}]}

\* arrays of 0..MaxSchema entries in schema order; unlocktime 0 = not achieved
AlignedPlayerAchievements ==
  UNION {{[i \in 1..k |-> PlayerAchievement(AchievementId(i),
                                            IF t[i] = 0 THEN 0 ELSE 1, t[i])] :
            t \in [1..k -> {0, 86399, 86400}]} : k \in 0..MaxSchema}

PercentOf(i) == 10 * i + 2

\* rarity tables with unique names: any arrangement of any subset of the
\* schema's identifiers
PercentageTables ==
  UNION {{[j \in 1..k |-> [name |-> AchievementId(s[j]), percent |-> PercentOf(s[j])]] :
            s \in {q \in [1..k -> 1..MaxSchema] :
                     \A a, b \in 1..k : a # b => q[a] # q[b]}} : k \in 0..MaxSchema}

FullPercentageTable ==
  [j \in 1..MaxSchema |-> [name |-> AchievementId(j), percent |-> PercentOf(j)]]

\* the arrays of the concurrent specification: the schema's identifiers in
\* order, then the first ending, the first entry always achieved
SmallPlayerAchievements ==
  {[i \in 1..(MaxSchema + 1) |->
      IF i <= MaxSchema
        THEN PlayerAchievement(AchievementId(i), b[i], b[i] * 86400)
        ELSE PlayerAchievement(CandidateId(1), b[i], b[i] * 86400)] :
     b \in {c \in [1..(MaxSchema + 1) -> {0, 1}] :
              \A i \in 1..(MaxSchema - 1) : c[i] = 1}}

(***************************************************************************)
(* Specifications                                                          *)
(***************************************************************************)
\* the state after module load, with the requests of `active` received
InitRequests(active, routes, ids, playerSets, percentageSets) ==
  /\ \E f \in [active -> routes] :
       route = [r \in Reqs |-> IF r \in active THEN f[r] ELSE "none"]
  /\ \E f \in [active -> ids] :
       appid = [r \in Reqs |-> IF r \in active THEN f[r] ELSE "570940"]
  /\ \E f \in [active -> playerSets] :
       steamPlayerAchievements = [r \in Reqs |-> IF r \in active THEN f[r] ELSE <<>>]
  /\ \E f \in [active -> percentageSets] :
       steamPercentages = [r \in Reqs |-> IF r \in active THEN f[r] ELSE <<>>]
  /\ pc = [r \in Reqs |-> IF r \in active THEN "start" ELSE "idle"]
  /\ bosses = [r \in Reqs |-> <<>>]
  /\ achievements = [r \in Reqs |-> <<>>]
  /\ playerAchievements = [r \in Reqs |-> <<>>]
  /\ schema = [r \in Reqs |-> <<>>]
  /\ percentages = [r \in Reqs |-> <<>>]
  /\ upstream = [r \in Reqs |-> <<>>]
  /\ fetches = [r \in Reqs |-> 0]
  /\ enriched = [r \in Reqs |-> FALSE]
  /\ sent = [r \in Reqs |-> <<>>]
  /\ nextErr = [r \in Reqs |-> "none"]
  /\ result = <<>>
  /\ possibleAchievements = <<>>

FullSchemas ==
  [darksoulsremastered_schema |-> SchemaList("DSR", MaxSchema),
   eldenring_schema |-> SchemaList("ER", MaxSchema)]

\* one boss-progress request over every catalog and achievement set
InitBosses ==
  /\ bossesJson \in BossCatalogs
  /\ schemaJson = FullSchemas
  /\ legacySchemaFile = FALSE
  /\ InitRequests({1}, {"bosses"}, AppIds, BossPlayerAchievements, {<<>>})

\* one achievements request over every schema, player array and rarity table
InitAchievements ==
  /\ bossesJson = [darksoulsremastered |-> BossList("DSR", 1, 0),
                   eldenring |-> BossList("ER", 2, 2)]
  /\ schemaJson \in SchemaCatalogs
  /\ legacySchemaFile \in BOOLEAN
  /\ InitRequests({1}, {"achievements"}, AppIds, AlignedPlayerAchievements,
                  PercentageTables)

\* all requests at once, of either route, for the two games of the catalog
Init ==
  /\ bossesJson = [darksoulsremastered |-> BossList("DSR", 1, 0),
                   eldenring |-> BossList("ER", 2, 2)]
  /\ schemaJson = FullSchemas
  /\ legacySchemaFile = FALSE
  /\ InitRequests(Reqs, {"bosses", "achievements"}, {"570940", "1245620"},
                  SmallPlayerAchievements, {FullPercentageTable})

NextBosses ==
  \E r \in Reqs :
    \/ Bosses_Start(r)
    \/ Bosses_FetchSettled(r)
    \/ Bosses_JsonSettled(r)

NextAchievements ==
  \E r \in Reqs :
    \/ Achievements_Start(r)
    \/ Achievements_FetchSettled(r)
    \/ Achievements_JsonSettled(r)
    \/ Achievements_PercentagesFetchSettled(r)
    \/ Achievements_PercentagesJsonSettled(r)

Next ==
  \E r \in Reqs :
    \/ Bosses_Start(r)
    \/ Bosses_FetchSettled(r)
    \/ Bosses_JsonSettled(r)
    \/ Achievements_Start(r)
    \/ Achievements_FetchSettled(r)
    \/ Achievements_JsonSettled(r)
    \/ Achievements_PercentagesFetchSettled(r)
    \/ Achievements_PercentagesJsonSettled(r)

SpecBosses == InitBosses /\ [][NextBosses]_vars
SpecAchievements == InitAchievements /\ [][NextAchievements]_vars
Spec == Init /\ [][Next]_vars

(***************************************************************************)
(* Vocabulary of the properties                                            *)
(***************************************************************************)
KnownAppIds == {"570940", "1245620"}

\* the handler of request r got the player's achievements and ran its scan
ScanRan(r) == route[r] = "bosses" /\ pc[r] = "done" /\ upstream[r] = <<200>>

HasAchieved(achs, id) ==
  \E i \in 1..Len(achs) : achs[i].apiname = id /\ achs[i].achieved = 1

HasUnachieved(achs, id) ==
  \E i \in 1..Len(achs) : achs[i].apiname = id /\ achs[i].achieved = 0

IsSingle(boss) == boss.apiname.kind = "string"
IsBranching(boss) == boss.apiname.kind = "array"

\* milestones 1..k-1 are single-identifier milestones the player has achieved
AchievedBefore(bs, achs, k) ==
  \A i \in 1..(k - 1) : IsSingle(bs[i]) /\ HasAchieved(achs, bs[i].apiname.ids[1])

AnyCandidateAchieved(boss, achs) ==
  \E j \in 1..Len(boss.apiname.ids) : HasAchieved(achs, boss.apiname.ids[j])

\* the verdict "milestone k is next", recent_boss absent when k is the first
NextBossVerdict(bs, k) ==
  IF k > 1
    THEN [complete |-> FALSE, next_boss |-> JsString(bs[k].name),
          recent_boss |-> JsString(bs[k - 1].name)]
    ELSE [complete |-> FALSE, next_boss |-> JsString(bs[k].name)]

\* the verdict of a response body, under whichever key it was sent
VerdictOf(body) == IF "data" \in DOMAIN body THEN body.data ELSE body.response

(***************************************************************************)
(* C1: for a boss list of single-identifier milestones of which the player *)
(* has achieved the first K-1 and has, but has not achieved, the K-th, the *)
(* boss query answers complete = false, next_boss = the K-th name and      *)
(* recent_boss = the (K-1)-th name, recent_boss absent (and no error) when *)
(* K is the first milestone.                                               *)
(***************************************************************************)
C1_NextBossFound ==
  \A r \in Reqs : ScanRan(r) =>
    \A k \in 1..Len(bosses[r]) :
      ( /\ \A i \in 1..Len(bosses[r]) : IsSingle(bosses[r][i])
        /\ AchievedBefore(bosses[r], achievements[r], k)
        /\ HasUnachieved(achievements[r], bosses[r][k].apiname.ids[1]) )
      => /\ nextErr[r] = "none"
         /\ Len(sent[r]) = 1
         /\ VerdictOf(sent[r][1].body) = NextBossVerdict(bosses[r], k)

(***************************************************************************)
(* C2: when the player has achieved every milestone of the boss list, the  *)
(* boss query answers complete = true with recent_boss the name, a string, *)
(* of the last milestone.                                                  *)
(***************************************************************************)
C2_CompleteAtEnd ==
  \A r \in Reqs : ScanRan(r) =>
    LET n == Len(bosses[r])
    IN ( /\ n >= 1
         /\ AchievedBefore(bosses[r], achievements[r], n)
         /\ IF IsSingle(bosses[r][n])
              THEN HasAchieved(achievements[r], bosses[r][n].apiname.ids[1])
              ELSE AnyCandidateAchieved(bosses[r][n], achievements[r]) )
       => /\ Len(sent[r]) = 1
          /\ VerdictOf(sent[r][1].body).complete = TRUE
          /\ VerdictOf(sent[r][1].body).recent_boss.type = "string"
          /\ VerdictOf(sent[r][1].body).recent_boss.val = bosses[r][n].name

(***************************************************************************)
(* C3: when the scan reaches a branching milestone none of whose           *)
(* candidates the player has achieved, the boss query does not throw: it   *)
(* answers complete = false, next_boss = that milestone's name,            *)
(* recent_boss = the previous milestone's name.                            *)
(***************************************************************************)
C3_BranchingNoneAchieved ==
  \A r \in Reqs : ScanRan(r) =>
    \A p \in 1..Len(bosses[r]) :
      ( /\ IsBranching(bosses[r][p])
        /\ AchievedBefore(bosses[r], achievements[r], p)
        /\ ~AnyCandidateAchieved(bosses[r][p], achievements[r]) )
      => /\ nextErr[r] = "none"
         /\ Len(sent[r]) = 1
         /\ VerdictOf(sent[r][1].body) = NextBossVerdict(bosses[r], p)

(***************************************************************************)
(* C4: when every milestone before a branching milestone is achieved and   *)
(* at least one of its candidates is achieved, the boss query answers      *)
(* complete = true, recent_boss = the branching milestone's name, no       *)
(* next_boss, whichever candidates are the achieved ones.                  *)
(***************************************************************************)
C4_BranchingAchieved ==
  \A r \in Reqs : ScanRan(r) =>
    \A p \in 1..Len(bosses[r]) :
      ( /\ IsBranching(bosses[r][p])
        /\ AchievedBefore(bosses[r], achievements[r], p)
        /\ AnyCandidateAchieved(bosses[r][p], achievements[r]) )
      => /\ nextErr[r] = "none"
         /\ sent[r] = <<Json(200, [data |-> [complete |-> TRUE,
                                             recent_boss |-> JsString(bosses[r][p].name)]])>>

\* a scan that passed an achieved milestone and ended on a branching one of
\* which only the second candidate is achieved
C4_Witness ==
  \E r \in Reqs :
    /\ ScanRan(r)
    /\ \E p \in 2..Len(bosses[r]) :
         /\ IsBranching(bosses[r][p])
         /\ AchievedBefore(bosses[r], achievements[r], p)
         /\ HasUnachieved(achievements[r], bosses[r][p].apiname.ids[1])
         /\ HasAchieved(achievements[r], bosses[r][p].apiname.ids[2])
         /\ Len(sent[r]) = 1
         /\ sent[r][1].body.data.recent_boss = JsString(bosses[r][p].name)

(***************************************************************************)
(* C5: for a player array as long as the schema and a rarity table that    *)
(* names every schema identifier, the achievements query answers with one  *)
(* entry per achieved position and none for any other, in increasing       *)
(* position order, each with that position's displayName, description and  *)
(* icon and the percent of the rarity entry named like the schema entry;   *)
(* with no achieved position the list is empty.                            *)
(***************************************************************************)
EnrichmentRan(r) == route[r] = "achievements" /\ pc[r] = "done" /\ enriched[r]

AchievedPositions(r) ==
  {i \in 1..Len(schema[r]) : i <= Len(playerAchievements[r])
                               /\ Truthy(playerAchievements[r][i].achieved)}

\* the k-th smallest element of a set of positions
Nth(S, k) == CHOOSE x \in S : Cardinality({y \in S : y < x}) = k - 1

Covers(pcts, sch) ==
  \A i \in 1..Len(sch) : \E j \in 1..Len(pcts) : pcts[j].name = sch[i].name

C5_EnrichSchemaOrder ==
  \A r \in Reqs :
    ( /\ EnrichmentRan(r)
      /\ Len(playerAchievements[r]) = Len(schema[r])
      /\ Covers(percentages[r], schema[r]) )
    => /\ nextErr[r] = "none"
       /\ Len(sent[r]) = 1
       /\ sent[r][1].status = 200
       /\ DOMAIN sent[r][1].body = {"data"}
       /\ LET list == sent[r][1].body.data.result
              A == AchievedPositions(r)
          IN /\ Len(list) = Cardinality(A)
             /\ \A k \in 1..Len(list) :
                  LET i == Nth(A, k)
                  IN /\ list[k].name = schema[r][i].displayName
                     /\ list[k].description = schema[r][i].description
                     /\ list[k].icon = schema[r][i].icon
                     /\ \E j \in 1..Len(percentages[r]) :
                          /\ percentages[r][j].name = schema[r][i].name
                          /\ percentages[r][j].percent = list[k].rarity

\* an answer that skipped the unachieved first position, with a rarity table
\* listed in another order than the schema
C5_Witness ==
  \E r \in Reqs :
    /\ EnrichmentRan(r)
    /\ Len(schema[r]) = 2 /\ Len(playerAchievements[r]) = 2
    /\ Covers(percentages[r], schema[r])
    /\ percentages[r][1].name = schema[r][2].name
    /\ AchievedPositions(r) = {2}
    /\ Len(sent[r]) = 1
    /\ Len(sent[r][1].body.data.result) = 1

(***************************************************************************)
(* C6: for an appid outside the catalog neither query ever sends a success *)
(* response (one computed from another game's data); the caller gets an    *)
(* explicit error.                                                         *)
(***************************************************************************)
C6_UnknownGameNoSuccess ==
  \A r \in Reqs : (route[r] # "none" /\ appid[r] \notin KnownAppIds) =>
    \A k \in 1..Len(sent[r]) : ~Ok(sent[r][k].status)

(***************************************************************************)
(* C7: when some achieved position of the schema has no rarity entry with  *)
(* its identifier, the achievements query ends in an error and sends no    *)
(* success response at all.                                                *)
(***************************************************************************)
MissingRarity(r) ==
  \E i \in AchievedPositions(r) :
    \A j \in 1..Len(percentages[r]) : percentages[r][j].name # schema[r][i].name

C7_MissingRarityFails ==
  \A r \in Reqs : (EnrichmentRan(r) /\ MissingRarity(r)) =>
    /\ sent[r] = <<>>
    /\ nextErr[r] # "none"

\* the second position is achieved and has no rarity entry, after a first
\* position that was enriched
C7_Witness ==
  \E r \in Reqs :
    /\ EnrichmentRan(r)
    /\ AchievedPositions(r) = {1, 2}
    /\ \E j \in 1..Len(percentages[r]) : percentages[r][j].name = schema[r][1].name
    /\ \A j \in 1..Len(percentages[r]) : percentages[r][j].name # schema[r][2].name
    /\ nextErr[r] = "TypeError"
    /\ Len(result) = 1

(***************************************************************************)
(* C8: every success response of the boss query carries its verdict under  *)
(* `data`, with the shape { complete, next_boss?, recent_boss? } where     *)
(* next_boss and recent_boss, when present, are name strings.              *)
(***************************************************************************)
C8_VerdictShape ==
  \A r \in Reqs : route[r] = "bosses" =>
    \A k \in 1..Len(sent[r]) : Ok(sent[r][k].status) =>
      /\ DOMAIN sent[r][k].body = {"data"}
      /\ LET v == sent[r][k].body.data
         IN /\ "complete" \in DOMAIN v
            /\ DOMAIN v \subseteq {"complete", "next_boss", "recent_boss"}
            /\ v.complete \in BOOLEAN
            /\ \A f \in DOMAIN v \ {"complete"} : v[f].type = "string"

(***************************************************************************)
(* C9: in the achievements query the enrichment runs only after both       *)
(* fetches settled ok; once a fetch settles non-ok the handler has sent    *)
(* exactly one response, with that status and { error: true, message },    *)
(* has issued no later fetch and never enriches.                           *)
(***************************************************************************)
C9_FetchesBeforeEnrich ==
  \A r \in Reqs : route[r] = "achievements" =>
    /\ enriched[r] => upstream[r] = <<200, 200>>
    /\ Len(sent[r]) <= 1
    /\ \A k \in 1..Len(upstream[r]) : ~Ok(upstream[r][k]) =>
         /\ k = Len(upstream[r])
         /\ fetches[r] = k
         /\ pc[r] = "done"
         /\ ~enriched[r]
         /\ sent[r] = <<Json(upstream[r][k], [error |-> TRUE, message |-> upstream[r][k]])>>

\* the rarity fetch came back non-ok after the player fetch came back ok
C9_Witness ==
  \E r \in Reqs :
    /\ route[r] = "achievements"
    /\ upstream[r] = <<200, 500>>
    /\ fetches[r] = 2
    /\ Len(sent[r]) = 1 /\ sent[r][1].status = 500

(***************************************************************************)
(* C10: with several requests in flight, their awaits settling in any      *)
(* order, the list each achievements request sends holds exactly the       *)
(* entries of its own schema, player array and rarity table, and a boss    *)
(* verdict reached through a branching milestone rests on the request's    *)
(* own achievements, although `result` and `possibleAchievements` are      *)
(* shared by all requests.                                                 *)
(***************************************************************************)
\* the entries request r's own inputs give rise to
OwnEntries(r) ==
  UNION {{ResultAchievement(schema[r][i], playerAchievements[r][i],
                            steamPercentages[r][j].percent) :
            j \in {j \in 1..Len(steamPercentages[r]) :
                     steamPercentages[r][j].name = schema[r][i].name}} :
         i \in AchievedPositions(r)}

C10_NoCrossRequestLeak ==
  \A r \in Reqs :
    \A k \in 1..Len(sent[r]) : Ok(sent[r][k].status) =>
      /\ route[r] = "achievements" =>
           LET list == sent[r][k].body.data.result
           IN /\ {list[i] : i \in 1..Len(list)} = OwnEntries(r)
              /\ Len(list) = Cardinality(OwnEntries(r))
      /\ (route[r] = "bosses" /\ "data" \in DOMAIN sent[r][k].body
            /\ sent[r][k].body.data.complete) =>
           \E p \in 1..Len(bosses[r]) :
             /\ sent[r][k].body.data.recent_boss = JsString(bosses[r][p].name)
             /\ \E i \in 1..Len(achievements[r]) :
                  /\ Includes(bosses[r][p].apiname, achievements[r][i].apiname)
                  /\ Truthy(achievements[r][i].achieved)

\* request 2 has answered with a non-empty list while request 1, whose own
\* entries differ, is still waiting for its rarity table
C10_Witness ==
  /\ route[1] = "achievements" /\ route[2] = "achievements"
  /\ pc[1] = "percentagesJson"
  /\ pc[2] = "done" /\ Len(sent[2]) = 1 /\ sent[2][1].status = 200
  /\ result # <<>>
  /\ OwnEntries(1) # {}
  /\ OwnEntries(1) # OwnEntries(2)

====
